---- MODULE Spec2Model ----
(***************************************************************************)
(* RefCountedPtr<T>: a shared-ownership handle.  Every handle holds a raw  *)
(* pointer `data` to the payload and a pointer `shared_references` to a    *)
(* heap-allocated std::atomic<int>.  The model keeps the heap (payloads    *)
(* and counters, each unallocated / allocated / freed), the handles, and   *)
(* the position of every thread inside the operation it is running.        *)
(*                                                                         *)
(* Spec       : public operations run one at a time, each as one step.     *)
(* SpecGet    : Spec with calls of get_data().                             *)
(* SpecRaw    : Spec with constructions from a raw pointer that a handle   *)
(*              already manages.                                           *)
(* SpecAlloc  : Spec with constructions in which a `new` throws.           *)
(* SpecMember : payloads that contain a handle (linked nodes).             *)
(* SpecRx     : the earlier RxPointer of src/src/RxPointer/ (int counter). *)
(* SpecConc   : threads interleave the individual fetch_add / fetch_sub /  *)
(*              delete steps of operations on distinct handle instances.   *)
(* SpecOrder  : threads that own their handles, with the happens-before    *)
(*              order that the memory orders of the atomic calls give.     *)
(***************************************************************************)
EXTENDS Integers, Sequences, FiniteSets, TLC

\* ---------------------------------------------------------------- bounds
NumHandles == 3
MaxPayloads == 2
MaxCounters == 2
NumThreads == 2
NumOwned == 2
MaxPast == 3

Null == 0
Handles == 1..NumHandles
Payloads == 1..MaxPayloads
Counters == 1..MaxCounters

\* A payload type may itself contain a handle (struct Node { RefCountedPtr<Node>
\* next; }).  The handle inside payload p is MemberOf(p); it comes to exist
\* with the payload and is destroyed by the payload's destructor.
Members == (NumHandles + 1)..(NumHandles + MaxPayloads)
MemberOf(p) == NumHandles + p
AllHandles == Handles \cup Members
Threads == 1..NumThreads

VARIABLES
  data,               \* handle -> payload id or Null        (T *data)
  shared_references,  \* handle -> counter id or Null        (std::atomic<int> *)
  live,               \* handle -> BOOLEAN: the object exists (constructed, not destroyed)
  pstate,             \* payload -> "unalloc" | "alloc" | "freed"
  cstate,             \* counter -> "unalloc" | "alloc" | "freed"
  count,              \* counter -> value of the std::atomic<int>
  past,               \* handle -> how many ints past its counter the count pointer points
  pfrees,             \* payload -> number of `delete data` executed on it
  cfrees,             \* counter -> number of `delete shared_references` executed on it
  zeros,              \* counter -> number of fetch_sub calls on it that returned 1
  corrupt,            \* heap misuse executed so far: "use_after_free", "double_free"
  halted,             \* "no", or the undefined step the process died in
  hb,                 \* SpecOrder: who owns which handle, and what happens-before what
  last,               \* Spec: the last public operation, the state before it, its steps
  th                  \* SpecConc: the operations under way, [pc, op, self, other] each

vars == <<data, shared_references, live, pstate, cstate, count, past, pfrees, cfrees,
          zeros, corrupt, halted, hb, last, th>>

\* The memory as one value; `ev` collects the steps of the operation under
\* way, `stale` what the storage of the handles destroyed during it still holds.
Mem ==
  [data |-> data, shared_references |-> shared_references, live |-> live,
   pstate |-> pstate, cstate |-> cstate, count |-> count, past |-> past,
   pfrees |-> pfrees, cfrees |-> cfrees, zeros |-> zeros,
   corrupt |-> corrupt, halted |-> halted, hb |-> hb, ev |-> <<>>, ub |-> FALSE,
   stale |-> [h \in AllHandles |-> [data |-> Null, shared_references |-> Null]]]

Commit(m) ==
  /\ data' = m.data
  /\ shared_references' = m.shared_references
  /\ live' = m.live
  /\ pstate' = m.pstate
  /\ cstate' = m.cstate
  /\ count' = m.count
  /\ past' = m.past
  /\ pfrees' = m.pfrees
  /\ cfrees' = m.cfrees
  /\ zeros' = m.zeros
  /\ corrupt' = m.corrupt
  /\ halted' = m.halted
  /\ hb' = m.hb

\* The part of the memory an operation's record keeps of the state before it.
Snapshot(m) ==
  [data |-> m.data, shared_references |-> m.shared_references, live |-> m.live,
   pstate |-> m.pstate, cstate |-> m.cstate, count |-> m.count]

Min(S) == CHOOSE x \in S : \A y \in S : x <= y
Cap(n) == IF n > 2 THEN 2 ELSE n

Running(m) == m.halted = "no"

\* An undefined step: the process dies in it, or carries on.  Misuse of a heap
\* block stays on record; a null dereference that did not kill the process
\* has touched nothing the model keeps.
Undefined(m, what, ub) ==
  [m EXCEPT !.corrupt = IF what = "null_deref" THEN @ ELSE @ \cup {what},
            !.halted = IF ub = "crash" THEN what ELSE @,
            !.ev = Append(@, <<what>>),
            !.ub = TRUE]

\* ------------------------------------------------------- atomic counter
\* shared_references->fetch_add(1, std::memory_order_relaxed)
FetchAdd_NoIncrement(m, c, ub) == m
FetchAdd(m, c, ub) ==
  IF ~Running(m) THEN m
  ELSE IF c = Null THEN Undefined(m, "null_deref", ub)
  ELSE IF m.cstate[c] # "alloc"
    THEN LET u == Undefined(m, "use_after_free", ub)
         IN IF ~Running(u) THEN u
            ELSE [u EXCEPT !.count[c] = @ + 1, !.ev = Append(@, <<"add", c>>)]
  ELSE [m EXCEPT !.count[c] = @ + 1, !.ev = Append(@, <<"add", c>>)]

\* The value shared_references->fetch_sub(1, ...) returns: the one before.
FetchSubResult_NewValue(m, c) == IF c = Null THEN 0 ELSE m.count[c] - 1
FetchSubResult(m, c) == IF c = Null THEN 0 ELSE m.count[c]

\* shared_references->fetch_sub(1, std::memory_order_acq_rel)
FetchSub(m, c, ub) ==
  IF ~Running(m) THEN m
  ELSE IF c = Null THEN Undefined(m, "null_deref", ub)
  ELSE LET dec(x) == [x EXCEPT !.count[c] = @ - 1,
                               !.zeros[c] = IF m.count[c] = 1 THEN Cap(@ + 1) ELSE @,
                               !.ev = Append(@, <<"sub", c>>)]
       IN IF m.cstate[c] # "alloc"
            THEN LET u == Undefined(m, "use_after_free", ub)
                 IN IF ~Running(u) THEN u ELSE dec(u)
            ELSE dec(m)

\* `== 1` of `fetch_sub(...) == 1`: this decrement took the counter to zero.
WasLastReference_PostValue(old) == old = 0
WasLastReference(old) == old = 1

\* ------------------------------------------------------------ the heap
\* ~T(): the destructor of the payload destroys the handle inside it, by
\* ~RefCountedPtr(), whose lifetime ends there; the storage keeps what the
\* destructor, which clears nothing, left in it.
RECURSIVE DtorBody(_, _, _)
DestroyMember(m, h, ub) ==
  IF ~Running(m) \/ ~m.live[h] THEN m
  ELSE LET m1 == DtorBody([m EXCEPT !.live[h] = FALSE], h, ub)
       IN IF ~Running(m1) THEN m1
          ELSE [m1 EXCEPT !.stale[h] = [data |-> m1.data[h],
                                        shared_references |-> m1.shared_references[h]],
                          !.data[h] = Null, !.shared_references[h] = Null]

\* delete data;   (deleting a null pointer does nothing): ~T(), then the
\* storage is freed
DeletePayload_KeepsMembers(m, p, ub) ==
  IF ~Running(m) \/ p = Null THEN m
  ELSE [m EXCEPT !.pstate[p] = "freed", !.pfrees[p] = Cap(@ + 1),
                 !.live[MemberOf(p)] = FALSE,
                 !.ev = Append(@, <<"delete_data", p>>)]

DeletePayload(m, p, ub) ==
  IF ~Running(m) \/ p = Null THEN m
  ELSE LET del(x) == [x EXCEPT !.pstate[p] = "freed", !.pfrees[p] = Cap(@ + 1),
                               !.ev = Append(@, <<"delete_data", p>>)]
       IN IF m.pstate[p] # "alloc"
            THEN LET u == Undefined(m, "double_free", ub)
                 IN IF ~Running(u) THEN u ELSE del(u)
            ELSE LET m1 == DestroyMember(m, MemberOf(p), ub)
                 IN IF ~Running(m1) THEN m1 ELSE del(m1)

\* delete shared_references;
DeleteCounter(m, c, ub) ==
  IF ~Running(m) \/ c = Null THEN m
  ELSE LET del(x) == [x EXCEPT !.cstate[c] = "freed", !.cfrees[c] = Cap(@ + 1),
                               !.ev = Append(@, <<"delete_count", c>>)]
       IN IF m.cstate[c] # "alloc"
            THEN LET u == Undefined(m, "double_free", ub)
                 IN IF ~Running(u) THEN u ELSE del(u)
            ELSE del(m)

\* new T(args...)  /  the caller's `new T` handed to RefCountedPtr(T*)
FreshPayload == Min({p \in Payloads : pstate[p] = "unalloc"})
CanAllocPayload == \E p \in Payloads : pstate[p] = "unalloc"
NewPayload(m, p) == [m EXCEPT !.pstate[p] = "alloc"]

\* new std::atomic<int>(0)
FreshCounter == Min({c \in Counters : cstate[c] = "unalloc"})
CanAllocCounter == \E c \in Counters : cstate[c] = "unalloc"
NewCounter_StartsAtOne(m, c) == [m EXCEPT !.cstate[c] = "alloc", !.count[c] = 1]
NewCounter(m, c) == [m EXCEPT !.cstate[c] = "alloc", !.count[c] = 0]

\* -------------------------------------------------------- RefCountedPtr
\* this->data = data; this->shared_references = shared_references;
StorePointers(m, h, d, c) ==
  IF ~Running(m) THEN m
  ELSE [m EXCEPT !.data[h] = d, !.shared_references[h] = c]

\* void init_data(T *data, std::atomic<int> *shared_references)
init_data_StoreOnly(m, h, d, c, ub) == StorePointers(m, h, d, c)
init_data(m, h, d, c, ub) == FetchAdd(StorePointers(m, h, d, c), c, ub)

\* void release_data()
release_data(m, h, ub) ==
  DeleteCounter(DeletePayload(m, m.data[h], ub), m.shared_references[h], ub)

\* T *get_data() { return data; }: the value returned, and the memory after
\* the call, which has no statement but the return
get_data(m, h) == m.data[h]
get_data_Counting(m, h) ==
  IF m.shared_references[h] # Null
    THEN FetchAdd(m, m.shared_references[h], "proceed")
    ELSE m
get_data_Call(m, h) == m

\* The constructor returned: the object exists.  A constructor the process
\* died in never produced an object.
Born(m, h) == IF ~Running(m) THEN m ELSE [m EXCEPT !.live[h] = TRUE]

\* The destructor returned: the object is gone, its fields with it.
Gone(m, h) ==
  IF ~Running(m) THEN m
  ELSE [m EXCEPT !.live[h] = FALSE, !.data[h] = Null, !.shared_references[h] = Null]

\* RefCountedPtr() : data(nullptr), shared_references(nullptr) {}
DefaultCtor(m, h) == Born(StorePointers(m, h, Null, Null), h)

\* RefCountedPtr(T *data)
RawCtor(m, h, d, c, ub) == Born(init_data(NewCounter(m, c), h, d, c, ub), h)

\* template <typename... Args> RefCountedPtr(Args &&...args)
InPlaceCtor(m, h, p, c, ub) ==
  Born(init_data(NewCounter(NewPayload(m, p), c), h, p, c, ub), h)

\* new Node(...): the payload's constructor default-constructs the handle
\* inside it
NewNode(m, p) == DefaultCtor(NewPayload(m, p), MemberOf(p))

\* RefCountedPtr<Node>(Args &&...) for a payload type with a handle inside
NodeCtor(m, h, p, c, ub) ==
  Born(init_data(NewCounter(NewNode(m, p), c), h, p, c, ub), h)

\* A `new` expression throws std::bad_alloc.  Neither constructor has a
\* try block, so the exception leaves it at once: nothing after the `new` is
\* executed and no object comes to exist.
BadAlloc(m) == [m EXCEPT !.ev = Append(@, <<"bad_alloc">>)]

\* RefCountedPtr(T *data) when `new std::atomic<int>(0)` throws: init_data is
\* never entered.
RawCtor_Throws(m, h, d) == BadAlloc(m)

\* RefCountedPtr(Args &&...) when one of its two `new` expressions throws.
\* They are the two arguments of one call, evaluated in either order: `first`
\* is the one evaluated first, `failing` the one that throws.
InPlaceCtor_Throws(m, h, p, c, first, failing) ==
  IF first = failing THEN BadAlloc(m)
  ELSE IF first = "payload" THEN BadAlloc(NewPayload(m, p))
  ELSE BadAlloc(NewCounter(m, c))

\* RefCountedPtr(RefCountedPtr<T> &other)
CopyCtor(m, h, o, ub) ==
  Born(init_data(m, h, m.data[o], m.shared_references[o], ub), h)

\* ~RefCountedPtr(): the body, without the end of the object's lifetime
DtorBody_NoNullTest(m, h, ub) ==
  LET old == FetchSubResult(m, m.shared_references[h])
      m1 == FetchSub(m, m.shared_references[h], ub)
  IN IF WasLastReference(old) THEN release_data(m1, h, ub) ELSE m1

DtorBody(m, h, ub) ==
  IF m.shared_references[h] # Null
    THEN LET old == FetchSubResult(m, m.shared_references[h])
             m1 == FetchSub(m, m.shared_references[h], ub)
         IN IF WasLastReference(old) THEN release_data(m1, h, ub) ELSE m1
    ELSE m

Dtor(m, h, ub) == Gone(DtorBody(m, h, ub), h)

\* `this != &other`
NotSelf_Unguarded(h, o) == TRUE
NotSelf(h, o) == h # o

\* RefCountedPtr<T> &operator=(RefCountedPtr<T> &other)
\* (release the current pair, then adopt other's)
AssignRelease_AlwaysDelete(m, h, ub) ==
  IF m.shared_references[h] # Null
    THEN release_data(FetchSub(m, m.shared_references[h], ub), h, ub)
    ELSE m

AssignRelease(m, h, ub) ==
  IF m.shared_references[h] # Null
    THEN LET old == FetchSubResult(m, m.shared_references[h])
             m1 == FetchSub(m, m.shared_references[h], ub)
         IN IF WasLastReference(old) THEN release_data(m1, h, ub) ELSE m1
    ELSE m

AssignAdopt_KeepOnEmpty(m, h, o, ub) ==
  IF m.shared_references[o] # Null
    THEN FetchAdd(StorePointers(m, h, m.data[o], m.shared_references[o]),
                  m.shared_references[o], ub)
    ELSE m

AssignAdopt_StoreOnly(m, h, o, ub) ==
  StorePointers(m, h, m.data[o], m.shared_references[o])

\* `other.data`, `other.shared_references`, `this->data = ...`: other and
\* *this are read and written where they were when operator= was entered,
\* whether or not the objects still exist there.
Access(m, h, ub) ==
  IF ~Running(m) \/ m.live[h] THEN m ELSE Undefined(m, "use_after_free", ub)

\* What the storage of handle o holds.
Fields(m, o) ==
  IF m.live[o] THEN [data |-> m.data[o], shared_references |-> m.shared_references[o]]
  ELSE m.stale[o]

AssignAdopt(m, h, o, ub) ==
  LET m0 == Access(Access(m, o, ub), h, ub)
      m1 == StorePointers(m0, h, Fields(m0, o).data, Fields(m0, o).shared_references)
  IN IF m1.shared_references[h] # Null
       THEN FetchAdd(m1, m1.shared_references[h], ub)
       ELSE m1

OperatorAssign_AdoptFirst(m, h, o, ub) ==
  IF NotSelf(h, o) THEN AssignRelease(AssignAdopt(m, h, o, ub), h, ub) ELSE m

OperatorAssign(m, h, o, ub) ==
  IF NotSelf(h, o) THEN AssignAdopt(AssignRelease(m, h, ub), h, o, ub) ELSE m

\* An observer of the calls made, for the sequence
\*   RefCountedPtr<T> h1(raw); RefCountedPtr<T> h2; h2 = h1; ~h1; ~h2
\* `at` is how many of the five calls have been made in a row, `vals` the
\* values the counter of h1's pair had after the calls that touch it.  Any
\* other call ends the observation; a construction from raw starts one.
NoRun == [at |-> 0, h1 |-> Null, h2 |-> Null, c |-> Null, p |-> Null, vals |-> <<>>]
Observe(s, op, h, o, a, m) ==
  IF ~Running(m) THEN NoRun
  ELSE IF op = "raw" /\ a # Null
    THEN [at |-> 1, h1 |-> h, h2 |-> Null, c |-> m.shared_references[h], p |-> a,
          vals |-> <<m.count[m.shared_references[h]]>>]
  ELSE IF s.at = 1 /\ op = "default"
    THEN [s EXCEPT !.at = 2, !.h2 = h]
  ELSE IF \/ s.at = 2 /\ op = "assign" /\ h = s.h2 /\ o = s.h1
          \/ s.at = 3 /\ op = "destroy" /\ h = s.h1
          \/ s.at = 4 /\ op = "destroy" /\ h = s.h2
    THEN [s EXCEPT !.at = @ + 1, !.vals = Append(@, m.count[s.c])]
  ELSE NoRun

\* SpecOrder: no `delete data` in the step just taken
NoDelete == "no"

\* ------------------------------------------------------------ the state
TypeOK ==
  /\ data \in [AllHandles -> Payloads \cup {Null}]
  /\ shared_references \in [AllHandles -> Counters \cup {Null}]
  /\ live \in [AllHandles -> BOOLEAN]
  /\ pstate \in [Payloads -> {"unalloc", "alloc", "freed"}]
  /\ cstate \in [Counters -> {"unalloc", "alloc", "freed"}]
  /\ count \in [Counters -> Int]
  /\ past \in [AllHandles -> 0..MaxPast]
  /\ pfrees \in [Payloads -> 0..2]
  /\ cfrees \in [Counters -> 0..2]
  /\ zeros \in [Counters -> 0..2]
  /\ corrupt \subseteq {"use_after_free", "double_free"}
  /\ halted \in {"no", "null_deref", "use_after_free", "double_free"}
  /\ hb \in [owner : [AllHandles -> Threads \cup {Null}],
              seen : [Threads -> SUBSET (Threads \X Payloads)],
              pub : [Counters -> SUBSET (Threads \X Payloads)],
              touched : SUBSET (Threads \X Payloads),
              deleted : {"no", "alone", "after_others"},
              unordered : SUBSET (Threads \X Payloads)]
  /\ th \subseteq [pc : {"delete_data", "delete_count", "adopt"},
                   op : {"destroy", "assign"},
                   self : AllHandles, other : AllHandles \cup {Null}]

\* No handle exists yet, nothing has been allocated, every thread is idle.
Init ==
  /\ data = [h \in AllHandles |-> Null]
  /\ shared_references = [h \in AllHandles |-> Null]
  /\ live = [h \in AllHandles |-> FALSE]
  /\ pstate = [p \in Payloads |-> "unalloc"]
  /\ cstate = [c \in Counters |-> "unalloc"]
  /\ count = [c \in Counters |-> 0]
  /\ past = [h \in AllHandles |-> 0]
  /\ pfrees = [p \in Payloads |-> 0]
  /\ cfrees = [c \in Counters |-> 0]
  /\ zeros = [c \in Counters |-> 0]
  /\ corrupt = {}
  /\ halted = "no"
  /\ hb = [owner |-> [h \in AllHandles |-> Null],
           seen |-> [t \in Threads |-> {}],
           pub |-> [c \in Counters |-> {}],
           touched |-> {},
           deleted |-> NoDelete,
           unordered |-> {}]
  /\ last = [op |-> "none", self |-> Null, other |-> Null, arg |-> Null,
             ret |-> Null, pre |-> Snapshot(Mem), ev |-> <<>>, run |-> NoRun]
  /\ th = {}

\* A handle some thread is inside an operation on, as target or as source.
Busy(h) == \E t \in th : h \in {t.self, t.other}
Quiescent == halted = "no" /\ th = {}

\* Handle objects are storage with no identity of its own beyond its address:
\* a new handle takes the first unused slot.
CanConstruct == halted = "no" /\ \E h \in Handles : ~live[h]
NewHandle == Min({h \in Handles : ~live[h]})

\* What a step whose behaviour is undefined (a null or dangling counter is
\* dereferenced, a freed block is deleted again) may do in a build: stop the
\* process ("crash"), or carry on over whatever the memory holds ("proceed").
\* Every outcome of an operation: one, unless it executed such a step.
Outcomes(proceed, crash) == IF proceed.ub THEN {proceed, crash} ELSE {proceed}

\* ------------------------------------------- Spec: one operation, one step
\* The record of an operation: which, on which handle, from which other
\* handle, with which raw pointer as argument, returning which pointer; the
\* state before it and the steps it made.
Record(op, h, o, a, r, m) ==
  /\ Commit(m)
  /\ last' = [op |-> op, self |-> h, other |-> o, arg |-> a, ret |-> r,
              pre |-> Snapshot(Mem), ev |-> m.ev,
              run |-> Observe(last.run, op, h, o, a, m)]
  /\ UNCHANGED th

Public(op, h, o, m) == Record(op, h, o, Null, Null, m)

\* RefCountedPtr<T> h;
DefaultConstruct ==
  /\ CanConstruct
  /\ Public("default", NewHandle, Null, DefaultCtor(Mem, NewHandle))

\* RefCountedPtr<T> h(raw);  raw is a null pointer or an object the caller
\* has just allocated and hands over.
ConstructFromRaw(isNull) ==
  /\ CanConstruct
  /\ CanAllocCounter
  /\ isNull \/ CanAllocPayload
  /\ LET Op(ub) ==
           IF isNull
             THEN RawCtor(Mem, NewHandle, Null, FreshCounter, ub)
             ELSE RawCtor(NewPayload(Mem, FreshPayload), NewHandle, FreshPayload,
                          FreshCounter, ub)
         raw == IF isNull THEN Null ELSE FreshPayload
     IN \E m \in Outcomes(Op("proceed"), Op("crash")) :
          Record("raw", NewHandle, Null, raw, Null, m)

\* RefCountedPtr<T> h(args...);
ConstructInPlace ==
  /\ CanConstruct
  /\ CanAllocCounter /\ CanAllocPayload
  /\ LET Op(ub) == InPlaceCtor(Mem, NewHandle, FreshPayload, FreshCounter, ub)
     IN \E m \in Outcomes(Op("proceed"), Op("crash")) : Public("inplace", NewHandle, Null, m)

\* RefCountedPtr<T> h(o);
CopyConstruct(o) ==
  /\ CanConstruct /\ live[o]
  /\ LET Op(ub) == CopyCtor(Mem, NewHandle, o, ub)
     IN \E m \in Outcomes(Op("proceed"), Op("crash")) : Public("copy", NewHandle, o, m)

\* h goes out of scope / is deleted
Destroy(h) ==
  /\ halted = "no" /\ live[h]
  /\ LET Op(ub) == Dtor(Mem, h, ub)
     IN \E m \in Outcomes(Op("proceed"), Op("crash")) : Public("destroy", h, Null, m)

\* h = o;
Assign(h, o) ==
  /\ halted = "no" /\ live[h] /\ live[o]
  /\ LET Op(ub) == OperatorAssign(Mem, h, o, ub)
     IN \E m \in Outcomes(Op("proceed"), Op("crash")) : Public("assign", h, o, m)

Next ==
  \/ DefaultConstruct
  \/ \E isNull \in BOOLEAN : ConstructFromRaw(isNull)
  \/ ConstructInPlace
  \/ \E o \in Handles : CopyConstruct(o)
  \/ \E h \in Handles : Destroy(h)
  \/ \E h, o \in Handles : Assign(h, o)

Spec == Init /\ [][Next]_vars

\* ------------------------------- SpecGet: Spec, and calls of get_data()
\* T *p = h.get_data();
Retrieve(h) ==
  /\ halted = "no" /\ live[h]
  /\ Record("get_data", h, Null, Null, get_data(Mem, h), get_data_Call(Mem, h))

NextGet ==
  \/ Next
  \/ \E h \in Handles : Retrieve(h)

SpecGet == Init /\ [][NextGet]_vars

\* ------------- SpecRaw: Spec, and raw pointers that are already managed
\* RefCountedPtr<T> h(o.get_data());  the constructor cannot tell a pointer
\* some handle already manages from a new one.
ConstructFromManaged(o) ==
  /\ CanConstruct /\ live[o] /\ get_data(Mem, o) # Null
  /\ CanAllocCounter
  /\ LET Op(ub) == RawCtor(Mem, NewHandle, get_data(Mem, o), FreshCounter, ub)
     IN \E m \in Outcomes(Op("proceed"), Op("crash")) :
          Record("raw", NewHandle, o, get_data(Mem, o), Null, m)

NextRaw ==
  \/ Next
  \/ \E o \in Handles : ConstructFromManaged(o)

SpecRaw == Init /\ [][NextRaw]_vars

\* ------------------------- SpecAlloc: Spec, and allocations that fail
\* RefCountedPtr<T> h(raw);  the counter cannot be allocated.  raw is null or
\* an object the caller has just allocated and hands over.
ConstructFromRawThrows(isNull) ==
  /\ CanConstruct
  /\ isNull \/ CanAllocPayload
  /\ LET raw == IF isNull THEN Null ELSE FreshPayload
         m0 == IF isNull THEN Mem ELSE NewPayload(Mem, FreshPayload)
     IN Record("raw_throws", NewHandle, Null, raw, Null,
               RawCtor_Throws(m0, NewHandle, raw))

\* RefCountedPtr<T> h(args...);  the payload or the counter cannot be
\* allocated.
ConstructInPlaceThrows(first, failing) ==
  /\ CanConstruct
  /\ first # failing /\ first = "payload" => CanAllocPayload
  /\ first # failing /\ first = "counter" => CanAllocCounter
  /\ LET p == IF first # failing /\ first = "payload" THEN FreshPayload ELSE Null
         c == IF first # failing /\ first = "counter" THEN FreshCounter ELSE Null
     IN Record("inplace_throws", NewHandle, Null, p, Null,
               InPlaceCtor_Throws(Mem, NewHandle, p, c, first, failing))

NextAlloc ==
  \/ Next
  \/ \E isNull \in BOOLEAN : ConstructFromRawThrows(isNull)
  \/ \E first, failing \in {"payload", "counter"} : ConstructInPlaceThrows(first, failing)

SpecAlloc == Init /\ [][NextAlloc]_vars

\* -------------- SpecMember: payloads that contain a handle (linked nodes)
\* The payload the handle inside payload p points at.
Succ(m, p) == IF m.live[MemberOf(p)] THEN m.data[MemberOf(p)] ELSE Null

\* The payloads met from p by following at most n handles inside payloads.
RECURSIVE Chain(_, _, _)
Chain(m, p, n) ==
  IF p = Null \/ n = 0 \/ m.pstate[p] # "alloc" THEN {}
  ELSE {p} \cup Chain(m, Succ(m, p), n - 1)

\* The payloads the program can get at: h.get_data(), h.get_data()->next.get_data(), ...
\* for the handles h it holds itself.
Reachable(m) ==
  UNION {Chain(m, m.data[h], MaxPayloads) : h \in {g \in Handles : m.live[g]}}

\* The handles the program can name: its own, and h.get_data()->next and so
\* on for the payloads it can get at.
UsableHandles ==
  {h \in Handles : live[h]} \cup {MemberOf(p) : p \in Reachable(Mem)}

\* No operation so far has used a freed block: what a program does after
\* that is not followed any further here.
Sound == corrupt = {}

\* The program holds at most NumOwned handles of its own at a time.
Room == \E h \in 1..NumOwned : ~live[h]

\* RefCountedPtr<Node> h(args...);
ConstructNode ==
  /\ Sound /\ Room /\ CanConstruct
  /\ CanAllocCounter /\ CanAllocPayload
  /\ LET Op(ub) == NodeCtor(Mem, NewHandle, FreshPayload, FreshCounter, ub)
     IN \E m \in Outcomes(Op("proceed"), Op("crash")) : Public("inplace", NewHandle, Null, m)

\* The handles the program owns and the handles inside its payloads are
\* copied from and assigned alike (b = a.get_data()->next; a.get_data()->next = b;
\* a = a.get_data()->next); only its own handles go out of scope.  (h = h does
\* nothing, here as in Spec.)
ConstructEmpty == Sound /\ Room /\ DefaultConstruct
CopyConstructFrom(o) == Sound /\ Room /\ CopyConstruct(o)
AssignTo(h, o) == Sound /\ h # o /\ Assign(h, o)
DestroyOwn(h) == Sound /\ Destroy(h)

NextMember ==
  \/ ConstructEmpty
  \/ ConstructNode
  \/ \E o \in UsableHandles : CopyConstructFrom(o)
  \/ \E h \in Handles : DestroyOwn(h)
  \/ \E h, o \in UsableHandles : AssignTo(h, o)

SpecMember == Init /\ [][NextMember]_vars

\* ------------ SpecRx: the RxPointer of src/src/RxPointer/ (an int counter)
\* RxPointer has the two pointers of RefCountedPtr, `data` and
\* `shared_reference`, the latter an int *; the model keeps it as the int
\* block it was allocated as (shared_references) and the number of ints it
\* has been advanced beyond it (past).
\* new int(0)
Rx_NewInt(m, c) == [m EXCEPT !.cstate[c] = "alloc", !.count[c] = 0]

\* void init_data(MemoryType *data, int *shared_reference), called with the
\* pointer c + k:
\*   this->data = data;
\*   *shared_reference++;      the parameter is advanced to c + k + 1; the int
\*                             it pointed at is neither read nor written
\*   this->shared_reference = shared_reference;
Rx_init_data(m, h, d, c, k) ==
  [m EXCEPT !.data[h] = d,
            !.shared_references[h] = c,
            !.past[h] = k + 1,
            !.ev = Append(@, <<"advance", c>>)]

\* RxPointer(MemoryType *data)
Rx_RawCtor(m, h, d, c) == Born(Rx_init_data(Rx_NewInt(m, c), h, d, c, 0), h)

\* template <typename... Args> RxPointer(Args &&...args)
Rx_InPlaceCtor(m, h, p, c) ==
  Born(Rx_init_data(Rx_NewInt(NewPayload(m, p), c), h, p, c, 0), h)

\* RxPointer(RxPointer &other)
Rx_CopyCtor(m, h, o) ==
  Born(Rx_init_data(m, h, m.data[o], m.shared_references[o], m.past[o]), h)

\* ~RxPointer() {}: the body is empty; the object is gone, its fields with it
Rx_Dtor(m, h) == [Gone(m, h) EXCEPT !.past[h] = 0]

\* MemoryType *get_data()
Rx_get_data(m, h) == m.data[h]

\* RxPointer<T> h(new T);
Rx_ConstructFromRaw ==
  /\ CanConstruct /\ CanAllocCounter /\ CanAllocPayload
  /\ Record("raw", NewHandle, Null, FreshPayload, Null,
            Rx_RawCtor(NewPayload(Mem, FreshPayload), NewHandle, FreshPayload, FreshCounter))

\* RxPointer<T> h(args...);
Rx_ConstructInPlace ==
  /\ CanConstruct /\ CanAllocCounter /\ CanAllocPayload
  /\ Public("inplace", NewHandle, Null,
            Rx_InPlaceCtor(Mem, NewHandle, FreshPayload, FreshCounter))

\* RxPointer<T> h(o);
Rx_CopyConstruct(o) ==
  /\ CanConstruct /\ live[o] /\ past[o] < MaxPast
  /\ Public("copy", NewHandle, o, Rx_CopyCtor(Mem, NewHandle, o))

\* h goes out of scope
Rx_Destroy(h) ==
  /\ live[h]
  /\ Public("destroy", h, Null, Rx_Dtor(Mem, h))

\* T *p = h.get_data();
Rx_Retrieve(h) ==
  /\ live[h]
  /\ Record("get_data", h, Null, Null, Rx_get_data(Mem, h), Mem)

NextRx ==
  \/ Rx_ConstructFromRaw
  \/ Rx_ConstructInPlace
  \/ \E o \in Handles : Rx_CopyConstruct(o)
  \/ \E h \in Handles : Rx_Destroy(h)
  \/ \E h \in Handles : Rx_Retrieve(h)

SpecRx == Init /\ [][NextRx]_vars

\* ------- SpecOrder: threads, and the order the atomic operations establish
\* Every handle is used by one thread, its owner.  An access is a pair
\* <<t, p>>: thread t has read or written payload p through a handle of its
\* own.  hb.seen[t] holds the accesses that happen-before the point thread t
\* has reached; hb.pub[c] the accesses to the payload of counter c that
\* happen-before some release operation on c.  Every modification of a
\* counter is a read-modify-write, so each one continues the release
\* sequences of all the release operations before it, and an acquire
\* operation synchronizes with all of them.
\* Only the order that the operations on a pair's own counter establish is
\* counted.  Whatever else orders the threads (starting or joining a thread,
\* a queue that carries a handle, the counter of another pair) can only add
\* to it.
\* The operations are whole steps: the orders below relate the fetch_add and
\* fetch_sub calls, whose order on a counter is the order of the steps.

\* std::memory_order_relaxed of fetch_add, std::memory_order_acq_rel of fetch_sub
FetchAddOrder == "relaxed"
FetchSubOrder_Relaxed == "relaxed"
FetchSubOrder == "acq_rel"
Acquires(o) == o \in {"acquire", "acq_rel", "seq_cst"}
Releases(o) == o \in {"release", "acq_rel", "seq_cst"}

\* fetch_add / fetch_sub by thread t on counter c with memory order o
Rmw(m, t, c, p, o) ==
  LET s1 == IF Acquires(o) THEN m.hb.seen[t] \cup m.hb.pub[c] ELSE m.hb.seen[t]
      p1 == IF Releases(o)
              THEN m.hb.pub[c] \cup {e \in s1 : e[2] = p}
              ELSE m.hb.pub[c]
  IN [m EXCEPT !.hb.seen[t] = s1, !.hb.pub[c] = p1]

\* get_data()->...: thread t reads or writes payload p
Touch(m, t, p) ==
  [m EXCEPT !.hb.touched = @ \cup {<<t, p>>}, !.hb.seen[t] = @ \cup {<<t, p>>}]

Own(m, h, t) == [m EXCEPT !.hb.owner[h] = t]
Forget(S, p) == {e \in S : e[2] # p}

\* release_data() by thread t: `delete data` conflicts with every access to
\* the payload by another thread; those that do not happen-before it are
\* recorded.  hb.deleted tells, in the state the step leads to, whether
\* another thread had accessed the payload.
DeleteOrdering(m, t, p, c) ==
  LET foreign == {e \in m.hb.touched : e[2] = p /\ e[1] # t}
      late == {e \in foreign : e \notin m.hb.seen[t]}
  IN [m EXCEPT !.hb.unordered = @ \cup late,
               !.hb.deleted = IF foreign = {} THEN "alone" ELSE "after_others",
               !.hb.touched = Forget(@, p),
               !.hb.seen = [u \in Threads |-> Forget(m.hb.seen[u], p)],
               !.hb.pub = [d \in Counters |->
                             IF d = c THEN {} ELSE Forget(m.hb.pub[d], p)]]

\* What a decrement that was not the last has acquired stays published on the
\* counter, where the thread's next decrement of it acquires it again: the
\* thread's own record keeps the thread's own accesses.
Settle(m, t) == [m EXCEPT !.hb.seen[t] = {e \in @ : e[1] = t}]

\* The order established by `if (shared_references != nullptr) if
\* (shared_references->fetch_sub(1, acq_rel) == 1) release_data();` run by
\* thread t on handle h
ReleaseOrdering(m, t, h) ==
  LET c == m.shared_references[h]
  IN IF c = Null THEN m
     ELSE LET m1 == Rmw(m, t, c, m.data[h], FetchSubOrder)
          IN IF WasLastReference(FetchSubResult(m, c))
               THEN DeleteOrdering(m1, t, m.data[h], c)
               ELSE Settle(m1, t)

\* The order established by `if (shared_references != nullptr)
\* shared_references->fetch_add(1, relaxed);` after adopting o's pointers
AdoptOrdering(m, t, o) ==
  IF m.shared_references[o] # Null
    THEN Rmw(m, t, m.shared_references[o], m.data[o], FetchAddOrder)
    ELSE m

\* The memory a step of a thread starts from, and its end
Start == [Mem EXCEPT !.hb.deleted = NoDelete]
Finish(m) == Commit(m) /\ UNCHANGED <<last, th>>

\* thread t: RefCountedPtr<T> h(args...);
O_ConstructInPlace(t) ==
  /\ Room /\ CanConstruct /\ CanAllocCounter /\ CanAllocPayload
  /\ LET m0 == Own(Rmw(Start, t, FreshCounter, FreshPayload, FetchAddOrder),
                   NewHandle, t)
         Op(ub) == InPlaceCtor(m0, NewHandle, FreshPayload, FreshCounter, ub)
     IN \E m \in Outcomes(Op("proceed"), Op("crash")) : Finish(m)

\* thread t: RefCountedPtr<T> h(o);  and h is for thread u to use
O_CopyConstruct(t, u, o) ==
  /\ Room /\ CanConstruct /\ live[o] /\ hb.owner[o] = t /\ shared_references[o] # Null
  /\ LET m0 == Own(AdoptOrdering(Start, t, o), NewHandle, u)
         Op(ub) == CopyCtor(m0, NewHandle, o, ub)
     IN \E m \in Outcomes(Op("proceed"), Op("crash")) : Finish(m)

\* thread t: h.get_data()->field = ...;  for the first time on this payload:
\* the accesses that follow add nothing
O_Access(t, h) ==
  /\ halted = "no" /\ live[h] /\ hb.owner[h] = t /\ data[h] # Null
  /\ <<t, data[h]>> \notin hb.touched
  /\ Finish(Touch(Start, t, get_data(Start, h)))

\* thread t: h goes out of scope
O_Destroy(t, h) ==
  /\ halted = "no" /\ live[h] /\ hb.owner[h] = t
  /\ LET m0 == Own(ReleaseOrdering(Start, t, h), h, Null)
         Op(ub) == Dtor(m0, h, ub)
     IN \E m \in Outcomes(Op("proceed"), Op("crash")) : Finish(m)

\* thread t: h = o;
O_Assign(t, h, o) ==
  /\ halted = "no" /\ live[h] /\ live[o] /\ hb.owner[h] = t /\ hb.owner[o] = t
  /\ LET m0 == IF NotSelf(h, o)
                 THEN AdoptOrdering(ReleaseOrdering(Start, t, h), t, o)
                 ELSE Start
         Op(ub) == OperatorAssign(m0, h, o, ub)
     IN \E m \in Outcomes(Op("proceed"), Op("crash")) : Finish(m)

NextOrder ==
  \/ \E t \in Threads : O_ConstructInPlace(t)
  \/ \E t, u \in Threads, o \in Handles : O_CopyConstruct(t, u, o)
  \/ \E t \in Threads, h \in Handles : O_Access(t, h)
  \/ \E t \in Threads, h \in Handles : O_Destroy(t, h)
  \/ \E t \in Threads, h, o \in Handles : O_Assign(t, h, o)

SpecOrder == Init /\ [][NextOrder]_vars

\* ---------------------- SpecConc: threads, one atomic step of the code each
\* A step holds at most one access to shared memory (a fetch_add, a fetch_sub
\* or a delete) together with the accesses to the handle's own fields around
\* it, which no other thread may touch: a thread enters an operation only on
\* handles no other thread is inside an operation on.  An operation that makes
\* a single shared access is a single step and needs no position.
\* Threads have no identity the code can see: th holds the operations under
\* way, one per busy thread.
Step(m) == Commit(m) /\ UNCHANGED last
Goto(t, pc) == th' = (th \ {t}) \cup {[t EXCEPT !.pc = pc]}
Return(t) == th' = th \ {t}
Enter(op, h, o, pc) == th' = th \cup {[pc |-> pc, op |-> op, self |-> h, other |-> o]}
At(t, pc) == halted = "no" /\ t.pc = pc
SomeIdle == Cardinality(th) < NumThreads

T_DefaultConstruct ==
  /\ CanConstruct /\ SomeIdle
  /\ Step(DefaultCtor(Mem, NewHandle)) /\ UNCHANGED th

T_ConstructFromRaw(isNull) ==
  /\ CanConstruct /\ SomeIdle
  /\ CanAllocCounter
  /\ isNull \/ CanAllocPayload
  /\ LET Op(ub) ==
           IF isNull
             THEN RawCtor(Mem, NewHandle, Null, FreshCounter, ub)
             ELSE RawCtor(NewPayload(Mem, FreshPayload), NewHandle, FreshPayload,
                          FreshCounter, ub)
     IN \E m \in Outcomes(Op("proceed"), Op("crash")) : Step(m)
  /\ UNCHANGED th

T_ConstructInPlace ==
  /\ CanConstruct /\ SomeIdle
  /\ CanAllocCounter /\ CanAllocPayload
  /\ LET Op(ub) == InPlaceCtor(Mem, NewHandle, FreshPayload, FreshCounter, ub)
     IN \E m \in Outcomes(Op("proceed"), Op("crash")) : Step(m)
  /\ UNCHANGED th

\* RefCountedPtr(RefCountedPtr<T> &other): two stores and one fetch_add
T_CopyConstruct(o) ==
  /\ CanConstruct /\ SomeIdle /\ live[o] /\ ~Busy(o)
  /\ LET Op(ub) == CopyCtor(Mem, NewHandle, o, ub)
     IN \E m \in Outcomes(Op("proceed"), Op("crash")) : Step(m)
  /\ UNCHANGED th

\* ~RefCountedPtr(): `if (shared_references != nullptr)` and the fetch_sub
T_DestroyBegin(h) ==
  /\ halted = "no" /\ SomeIdle /\ live[h] /\ ~Busy(h)
  /\ UNCHANGED last
  /\ IF shared_references[h] = Null
       THEN Commit(Gone(Mem, h)) /\ UNCHANGED th
       ELSE LET c == shared_references[h]
                Op(ub) == FetchSub(Mem, c, ub)
            IN \E m \in Outcomes(Op("proceed"), Op("crash")) :
                 IF WasLastReference(FetchSubResult(Mem, c))
                   THEN Commit(m) /\ Enter("destroy", h, Null, "delete_data")
                   ELSE Commit(Gone(m, h)) /\ UNCHANGED th

\* operator=: `if (this != &other)`, `if (shared_references != nullptr)` and
\* the fetch_sub; with nothing to release, the adoption at once
T_AssignBegin(h, o) ==
  /\ halted = "no" /\ SomeIdle /\ live[h] /\ live[o] /\ ~Busy(h) /\ ~Busy(o)
  /\ UNCHANGED last
  /\ IF ~NotSelf(h, o) THEN Commit(Mem) /\ UNCHANGED th
     ELSE IF shared_references[h] = Null
       THEN LET Op(ub) == AssignAdopt(Mem, h, o, ub)
            IN (\E m \in Outcomes(Op("proceed"), Op("crash")) : Commit(m)) /\ UNCHANGED th
     ELSE LET c == shared_references[h]
              Op(ub) == FetchSub(Mem, c, ub)
          IN \E m \in Outcomes(Op("proceed"), Op("crash")) :
               /\ Commit(m)
               /\ IF WasLastReference(FetchSubResult(Mem, c))
                    THEN Enter("assign", h, o, "delete_data")
                    ELSE Enter("assign", h, o, "adopt")

\* release_data(): delete data;
T_DeleteData(t) ==
  /\ At(t, "delete_data")
  /\ LET Op(ub) == DeletePayload(Mem, data[t.self], ub)
     IN \E m \in Outcomes(Op("proceed"), Op("crash")) : Step(m)
  /\ Goto(t, "delete_count")

\* release_data(): delete shared_references;  then the destructor is over,
\* and operator= goes on to adopt
T_DeleteCount(t) ==
  /\ At(t, "delete_count")
  /\ UNCHANGED last
  /\ LET Op(ub) == DeleteCounter(Mem, shared_references[t.self], ub)
     IN \E m \in Outcomes(Op("proceed"), Op("crash")) :
          IF t.op = "destroy"
            THEN Commit(Gone(m, t.self)) /\ Return(t)
            ELSE Commit(m) /\ Goto(t, "adopt")

\* operator=: this->data = other.data; this->shared_references = ...;
\* `if (shared_references != nullptr)` fetch_add
T_AssignAdopt(t) ==
  /\ At(t, "adopt")
  /\ LET Op(ub) == AssignAdopt(Mem, t.self, t.other, ub)
     IN \E m \in Outcomes(Op("proceed"), Op("crash")) : Step(m)
  /\ Return(t)

NextConc ==
  \/ T_DefaultConstruct
  \/ \E isNull \in BOOLEAN : T_ConstructFromRaw(isNull)
  \/ T_ConstructInPlace
  \/ \E o \in Handles : T_CopyConstruct(o)
  \/ \E h \in Handles : T_DestroyBegin(h)
  \/ \E h, o \in Handles : T_AssignBegin(h, o)
  \/ \E t \in th : T_DeleteData(t)
  \/ \E t \in th : T_DeleteCount(t)
  \/ \E t \in th : T_AssignAdopt(t)

SpecConc == Init /\ [][NextConc]_vars

\* ================================================================ claims
Owning(m, h) == m.shared_references[h] # Null
Empty(m, h) == m.shared_references[h] = Null /\ m.data[h] = Null
Pre == last.pre
Now == Snapshot(Mem)
\* The live handles whose count pointer is c.
Sharers(m, c) == {h \in AllHandles : m.live[h] /\ m.shared_references[h] = c}
\* The live handles whose payload pointer is p.
Holders(m, p) == {h \in AllHandles : m.live[h] /\ m.data[h] = p}
\* How often step e occurs among the steps of the last operation.
Times(e) == Cardinality({i \in DOMAIN last.ev : last.ev[i] = e})
FreedByLast(c) == Pre.cstate[c] = "alloc" /\ cstate[c] = "freed"
PayloadFreedByLast(p) == Pre.pstate[p] = "alloc" /\ pstate[p] = "freed"

\* C1: over any sequence of constructions, copies, assignments and
\* destructions, a payload and its counter are deleted at most once, are
\* deleted by the very operation (a destruction or an assignment) that takes
\* away the last handle of the pair, the one whose decrement finds the counter
\* at 1, and are never deleted while a live handle still shares them nor left
\* allocated once none does.
C1_FreedOnceAtLastRelease ==
  /\ \A c \in Counters :
       /\ cfrees[c] <= 1
       /\ cstate[c] = "freed" => Sharers(Mem, c) = {}
       /\ cstate[c] = "alloc" => Sharers(Mem, c) # {}
       /\ FreedByLast(c) =>
            /\ last.op \in {"destroy", "assign"}
            /\ Sharers(Pre, c) = {last.self}
            /\ Pre.count[c] = 1
            /\ Times(<<"sub", c>>) = 1 /\ Times(<<"delete_count", c>>) = 1
  /\ \A p \in Payloads :
       /\ pfrees[p] <= 1
       /\ pstate[p] = "freed" => Holders(Mem, p) = {}
       /\ pstate[p] = "alloc" => Holders(Mem, p) # {}
       /\ PayloadFreedByLast(p) =>
            /\ Pre.data[last.self] = p
            /\ FreedByLast(Pre.shared_references[last.self])
            /\ Times(<<"delete_data", p>>) = 1

\* C1 witness: an assignment has moved the last handle of a pair to another
\* pair, which it now shares with the source, and has freed the pair it left,
\* payload and counter, once each.
C1_Witness ==
  \E c \in Counters, p \in Payloads :
    /\ last.op = "assign" /\ FreedByLast(c) /\ PayloadFreedByLast(p)
    /\ Pre.data[last.self] = p /\ Pre.shared_references[last.self] = c
    /\ cfrees[c] = 1 /\ pfrees[p] = 1
    /\ shared_references[last.self] # Null
    /\ Cardinality(Sharers(Mem, shared_references[last.self])) >= 2

\* A handle that holds a reference: it exists and is not the target of an
\* operation under way (a target has already given its reference up with its
\* fetch_sub, and its two pointers are stale until it adopts or is gone).
HoldsReference(h) == live[h] /\ ~\E t \in th : t.self = h

\* C2: in every state, whatever the other threads are in the middle of, the
\* pair of every handle that holds a reference is intact: its counter is
\* allocated and at least 1, and its payload has not been freed.
C2_SharedPairStaysValid ==
  \A h \in Handles :
    HoldsReference(h) /\ shared_references[h] # Null =>
      /\ cstate[shared_references[h]] = "alloc"
      /\ count[shared_references[h]] >= 1
      /\ data[h] # Null => pstate[data[h]] = "alloc"

\* C2 witness: one thread is between the fetch_sub and the fetch_add of an
\* assignment that left a pair which another handle still holds, with the
\* counter down to 1, while a second thread is deleting another pair.
C2_Witness ==
  \E t, u \in th, h \in Handles :
    /\ t.op = "assign" /\ t.pc = "adopt" /\ h # t.self
    /\ HoldsReference(h)
    /\ shared_references[h] = shared_references[t.self]
    /\ count[shared_references[h]] = 1
    /\ u.pc = "delete_count" /\ pstate[data[u.self]] = "freed"

\* The operations under way that are inside release_data() for counter c.
Releasing(c) ==
  {t \in th : t.pc \in {"delete_data", "delete_count"} /\ shared_references[t.self] = c}

\* C3: threads working on distinct handles of shared pairs, in any interleaving
\* of their fetch_add, fetch_sub and delete steps: at most one fetch_sub on a
\* counter returns 1, the thread that saw it is the one that deletes, nothing
\* is deleted twice, and no step touches a counter or payload already freed.
C3_OneThreadFreesOnce ==
  /\ corrupt = {}
  /\ halted \notin {"use_after_free", "double_free"}
  /\ \A p \in Payloads : pfrees[p] <= 1
  /\ \A c \in Counters :
       /\ zeros[c] <= 1
       /\ cfrees[c] <= 1
       /\ Cardinality(Releasing(c)) <= 1
       /\ cstate[c] = "freed" => zeros[c] = 1
       /\ cstate[c] = "alloc" /\ zeros[c] = 1 => Cardinality(Releasing(c)) = 1
       /\ cstate[c] = "alloc" /\ zeros[c] = 0 => Releasing(c) = {}

\* C3 witness: two threads have decremented the same counter; the one that
\* took it from 1 to 0 is deleting, the other, which took it from 2 to 1, is
\* still inside its assignment.
C3_Witness ==
  \E t, u \in th :
    /\ t # u
    /\ shared_references[t.self] = shared_references[u.self]
    /\ t.pc = "delete_count" /\ u.pc = "adopt"
    /\ zeros[shared_references[t.self]] = 1
    /\ count[shared_references[t.self]] = 0

\* C4: whenever no operation is part-way through, the counter of every
\* allocated pair equals the number of live handles whose count pointer is it.
C4_CountIsNumberOfHandles ==
  Quiescent =>
    \A c \in Counters :
      cstate[c] = "alloc" => count[c] = Cardinality(Sharers(Mem, c))

\* C4 witness: between operations, one pair is shared by three handles and
\* another pair has been freed.
C4_Witness ==
  /\ Quiescent
  /\ \E c, d \in Counters :
       /\ cstate[c] = "alloc" /\ count[c] = 3 /\ Cardinality(Sharers(Mem, c)) = 3
       /\ cstate[d] = "freed"

\* C5 (as claimed): every handle, whichever constructor or assignment
\* produced it, has a null payload pointer exactly when it has a null count
\* pointer.
C5_BothOrNeither ==
  \A h \in Handles : live[h] => (data[h] = Null <=> shared_references[h] = Null)

\* C6 (as claimed): copy-constructing from an Empty handle gives an Empty
\* handle, without touching any counter and without dereferencing a null
\* counter pointer.
C6_CopyOfEmptyIsEmpty ==
  last.op = "copy" /\ Empty(Pre, last.other) =>
    /\ halted = "no"
    /\ live[last.self] /\ Empty(Mem, last.self)
    /\ last.ev = <<>>

\* C7: copy-constructing B from an Owning A gives B the payload and the
\* counter of A, adds exactly 1 to that counter, by one fetch_add and nothing
\* else, and leaves A's two pointers as they were.
C7_CopySharesAndIncrements ==
  last.op = "copy" /\ Owning(Pre, last.other) =>
    LET A == last.other
        B == last.self
        c == Pre.shared_references[A]
    IN /\ live[B] /\ live[A]
       /\ get_data(Mem, B) = get_data(Mem, A)
       /\ shared_references[B] = c
       /\ data[A] = Pre.data[A] /\ shared_references[A] = c
       /\ count[c] = Pre.count[c] + 1
       /\ Cardinality(Sharers(Pre, c)) = 1 => Pre.count[c] = 1 /\ count[c] = 2
       /\ last.ev = << <<"add", c>> >>
       /\ \A d \in Counters \ {c} : count[d] = Pre.count[d]
       /\ cstate = Pre.cstate /\ pstate = Pre.pstate

\* C7 witness: the only handle of a pair has been copied; the counter went
\* from 1 to 2.
C7_Witness ==
  /\ last.op = "copy" /\ Owning(Pre, last.other)
  /\ Pre.count[Pre.shared_references[last.other]] = 1
  /\ count[shared_references[last.self]] = 2
  /\ data[last.self] # Null

\* C8: assigning B (pair Q) over A (pair P, another pair) takes exactly 1 off
\* P's counter, frees P's payload and counter exactly when A was the last
\* handle of P, leaves A with Q's payload and counter, adds exactly 1 to Q's
\* counter, and leaves B as it was.
C8_AssignReleasesThenShares ==
  LET A == last.self
      B == last.other
      P == Pre.shared_references[A]
      Q == Pre.shared_references[B]
      wasLast == Sharers(Pre, P) = {A}
  IN last.op = "assign" /\ A # B /\ Owning(Pre, A) /\ Owning(Pre, B) /\ P # Q =>
       /\ Times(<<"sub", P>>) = 1 /\ Times(<<"sub", Q>>) = 0
       /\ Times(<<"add", Q>>) = 1 /\ Times(<<"add", P>>) = 0
       /\ wasLast <=> cstate[P] = "freed"
       /\ wasLast <=> Times(<<"delete_count", P>>) = 1
       /\ Pre.data[A] # Null =>
            /\ wasLast <=> pstate[Pre.data[A]] = "freed"
            /\ wasLast <=> Times(<<"delete_data", Pre.data[A]>>) = 1
       /\ ~wasLast => cstate[P] = "alloc" /\ count[P] = Pre.count[P] - 1
       /\ data[A] = Pre.data[B] /\ shared_references[A] = Q
       /\ cstate[Q] = "alloc" /\ count[Q] = Pre.count[Q] + 1
       /\ data[B] = Pre.data[B] /\ shared_references[B] = Q
       /\ live[A] /\ live[B]
       /\ Pre.data[B] # Null => pstate[Pre.data[B]] = "alloc"

\* C8 witness: an assignment between two pairs where the target was not the
\* last handle of its pair, so that pair lives on with its counter one lower.
C8_Witness ==
  LET A == last.self
      B == last.other
      P == Pre.shared_references[A]
      Q == Pre.shared_references[B]
  IN /\ last.op = "assign" /\ A # B /\ Owning(Pre, A) /\ Owning(Pre, B) /\ P # Q
     /\ Pre.count[P] = 2 /\ count[P] = 1 /\ cstate[P] = "alloc"
     /\ count[Q] = 2 /\ shared_references[A] = Q

\* C9: h = h changes nothing, for an Empty and for an Owning h: no pointer, no
\* counter, no allocation state changes and no counter is touched.
C9_SelfAssignIsNoOp ==
  last.op = "assign" /\ last.self = last.other =>
    /\ Now = Pre
    /\ last.ev = <<>>
    /\ halted = "no" /\ corrupt = {}

\* C9 witness: the only handle of a pair has been assigned to itself.
C9_Witness ==
  /\ last.op = "assign" /\ last.self = last.other
  /\ Owning(Mem, last.self)
  /\ count[shared_references[last.self]] = 1

\* C10 (as claimed): an assignment never takes its target from Owning to
\* Empty.
C10_AssignKeepsOwning ==
  last.op = "assign" /\ Owning(Pre, last.self) => Owning(Mem, last.self)

\* C10 (amended): after an assignment the target is Owning exactly when the
\* source is: an Owning target stays Owning when the source is Owning, and
\* becomes Empty, its reference released, when the source is Empty.
C10_AssignTakesStateOfSource ==
  last.op = "assign" /\ Owning(Pre, last.self) =>
    /\ Owning(Mem, last.self) <=> Owning(Pre, last.other)
    /\ shared_references[last.self] = Pre.shared_references[last.other]
    /\ data[last.self] = Pre.data[last.other]
    /\ last.self # last.other => Times(<<"sub", Pre.shared_references[last.self]>>) = 1

\* C10 witness: an Owning handle has been assigned an Empty one and is Empty;
\* it was the last handle of its pair, which is freed.
C10_Witness ==
  /\ last.op = "assign" /\ Owning(Pre, last.self) /\ Empty(Pre, last.other)
  /\ Empty(Mem, last.self) /\ live[last.self]
  /\ cstate[Pre.shared_references[last.self]] = "freed"

\* C12: right after a construction from a raw pointer or in place, the new
\* handle is Owning, its counter is a block allocated by this construction,
\* shared with no other handle, whose value is 1 (allocated at 0, incremented
\* once), and get_data() gives the payload it was given (from raw) or the
\* payload this construction allocated (in place).
C12_ConstructedOwnsFreshPairAtOne ==
  last.op \in {"raw", "inplace"} =>
    LET h == last.self
        c == shared_references[h]
    IN /\ halted = "no" /\ live[h] /\ ~Pre.live[h]
       /\ Owning(Mem, h)
       /\ Pre.cstate[c] = "unalloc" /\ cstate[c] = "alloc"
       /\ Sharers(Mem, c) = {h}
       /\ count[c] = 1
       /\ last.ev = << <<"add", c>> >>
       /\ last.op = "raw" => get_data(Mem, h) = last.arg
       /\ last.op = "inplace" =>
            /\ get_data(Mem, h) # Null
            /\ Pre.pstate[get_data(Mem, h)] = "unalloc"
            /\ pstate[get_data(Mem, h)] = "alloc"
       /\ \A d \in Counters \ {c} : count[d] = Pre.count[d] /\ cstate[d] = Pre.cstate[d]

\* C12 witness: a handle has been constructed in place while another pair
\* existed; its counter is new and at 1.
C12_Witness ==
  /\ last.op = "inplace" /\ live[last.self]
  /\ count[shared_references[last.self]] = 1
  /\ pstate[data[last.self]] = "alloc"
  /\ \E d \in Counters : d # shared_references[last.self] /\ cstate[d] = "alloc"

\* C13: assigning an Owning source to an Empty target decrements nothing and
\* deallocates nothing; the target then has the payload and the counter of the
\* source, and that counter is one higher, by one fetch_add.  Over the calls
\* h1(raw), h2 default-constructed, h2 = h1, ~h1, ~h2 the counter of the pair
\* takes the values 1, 2, 1, 0, and the payload is deleted once, by ~h2 and
\* not before.
C13_AssignToEmptyThenReleaseTwice ==
  /\ last.op = "assign" /\ Empty(Pre, last.self) /\ Owning(Pre, last.other) =>
       LET Q == Pre.shared_references[last.other]
       IN /\ last.ev = << <<"add", Q>> >>
          /\ shared_references[last.self] = Q
          /\ data[last.self] = Pre.data[last.other]
          /\ count[Q] = Pre.count[Q] + 1
          /\ \A d \in Counters \ {Q} : count[d] = Pre.count[d]
          /\ pstate = Pre.pstate /\ cstate = Pre.cstate
          /\ halted = "no"
  /\ last.run.at >= 1 =>
       /\ last.run.vals = SubSeq(<<1, 2, 1, 0>>, 1, Len(last.run.vals))
       /\ last.run.at >= 3 => Len(last.run.vals) = last.run.at - 1
       /\ pfrees[last.run.p] = IF last.run.at = 5 THEN 1 ELSE 0
       /\ pstate[last.run.p] = IF last.run.at = 5 THEN "freed" ELSE "alloc"
       /\ last.run.at = 5 => Times(<<"delete_data", last.run.p>>) = 1

\* C13 witness: the five calls have been made; the counter went 1, 2, 1, 0 and
\* the second destruction deleted the payload.
C13_Witness ==
  /\ last.run.at = 5
  /\ last.run.vals = <<1, 2, 1, 0>>
  /\ last.op = "destroy" /\ PayloadFreedByLast(last.run.p)
  /\ pfrees[last.run.p] = 1

\* C14: get_data() returns the payload pointer of the handle, the null
\* pointer for an Empty handle, and changes nothing: no pointer of any handle,
\* no counter, no allocation, and no counter step is executed.
C14_GetDataReturnsPayloadOnly ==
  last.op = "get_data" =>
    /\ last.ret = Pre.data[last.self]
    /\ Empty(Pre, last.self) => last.ret = Null
    /\ Now = Pre
    /\ last.ev = <<>>
    /\ halted = "no"

\* C14 witness: get_data() on one of two handles sharing a pair returned the
\* payload, which is still allocated, with the counter still at 2.
C14_Witness ==
  /\ last.op = "get_data" /\ last.ret # Null
  /\ pstate[last.ret] = "alloc"
  /\ count[shared_references[last.self]] = 2
  /\ Cardinality(Holders(Mem, last.ret)) = 2

\* C15: a default-constructed handle is Empty and its construction allocates
\* nothing and touches no counter; destroying a handle whose count pointer is
\* null does nothing but end the handle: no counter changes, nothing is freed,
\* no counter step is executed.
C15_EmptyHandleCostsNothing ==
  /\ last.op = "default" =>
       /\ live[last.self] /\ Empty(Mem, last.self)
       /\ pstate = Pre.pstate /\ cstate = Pre.cstate /\ count = Pre.count
       /\ last.ev = <<>>
       /\ halted = "no"
  /\ last.op = "destroy" /\ Empty(Pre, last.self) =>
       /\ ~live[last.self]
       /\ pstate = Pre.pstate /\ cstate = Pre.cstate /\ count = Pre.count
       /\ \A h \in Handles \ {last.self} :
            /\ live[h] = Pre.live[h] /\ data[h] = Pre.data[h]
            /\ shared_references[h] = Pre.shared_references[h]
       /\ last.ev = <<>>
       /\ halted = "no"

\* C15 witness: an Empty handle has been destroyed while a pair was allocated
\* and held by another handle.
C15_Witness ==
  /\ last.op = "destroy" /\ Empty(Pre, last.self) /\ Pre.live[last.self]
  /\ ~live[last.self]
  /\ \E c \in Counters : cstate[c] = "alloc" /\ count[c] = 1

\* C18: A = B for two distinct handles of the same pair P deletes nothing and
\* leaves P's counter at the value it had: one fetch_sub on P followed by one
\* fetch_add on P, the value in between being one lower and at least 1.
C18_AssignWithinPairKeepsCount ==
  LET A == last.self
      B == last.other
      P == Pre.shared_references[A]
  IN last.op = "assign" /\ A # B /\ Owning(Pre, A) /\ Pre.shared_references[B] = P =>
       /\ last.ev = << <<"sub", P>>, <<"add", P>> >>
       /\ Pre.count[P] - 1 >= 1
       /\ count[P] = Pre.count[P]
       /\ pstate = Pre.pstate /\ cstate = Pre.cstate /\ cstate[P] = "alloc"
       /\ \A p \in Payloads : pfrees[p] = 0 \/ Pre.pstate[p] = "freed"
       /\ Now = Pre
       /\ halted = "no" /\ corrupt = {}

\* C18 witness: the two handles of a pair have been assigned one to the other;
\* the counter is 2 as before and the payload is allocated.
C18_Witness ==
  /\ last.op = "assign" /\ last.self # last.other
  /\ Owning(Pre, last.self)
  /\ Pre.shared_references[last.other] = Pre.shared_references[last.self]
  /\ Pre.count[Pre.shared_references[last.self]] = 2
  /\ count[shared_references[last.self]] = 2
  /\ data[last.self] # Null /\ pstate[data[last.self]] = "alloc"

\* Payload p is held through more than one counter.
Aliased(m, p) ==
  \E g, h \in Holders(m, p) : m.shared_references[g] # m.shared_references[h]

\* C19: every construction from a raw pointer allocates a counter of its own
\* and sets it to 1, whether or not a handle already manages the payload; a
\* handle made from the payload of another handle has that payload and a
\* different counter, and leaves the other's counter as it was.  A handle
\* that gives up the last reference of its counter executes `delete data` on
\* its payload, whatever other counters exist for that payload: with two
\* counters for one payload the second release deletes a payload already
\* freed.  The release that frees a payload leaves no handle holding it
\* exactly when the payload was held through one counter only.
C19_EachRawConstructionCountsAlone ==
  /\ last.op = "raw" =>
       LET h == last.self
           c == shared_references[h]
       IN /\ halted = "no" /\ live[h]
          /\ c # Null /\ Pre.cstate[c] = "unalloc" /\ cstate[c] = "alloc"
          /\ count[c] = 1 /\ Sharers(Mem, c) = {h}
          /\ data[h] = last.arg
          /\ last.other # Null =>
               /\ data[h] = data[last.other]
               /\ shared_references[last.other] # c
               /\ shared_references[last.other] = Pre.shared_references[last.other]
               /\ count[shared_references[last.other]] =
                    Pre.count[shared_references[last.other]]
  /\ \A c \in Counters :
       /\ cfrees[c] <= 1
       /\ halted = "no" /\ cstate[c] = "alloc" => count[c] = Cardinality(Sharers(Mem, c))
  /\ LET h == last.self
         c == Pre.shared_references[h]
         p == Pre.data[h]
     IN /\ last.op \in {"destroy", "assign"} /\ last.self # last.other
        /\ c # Null /\ Pre.count[c] = 1 /\ p # Null
        => \/ Times(<<"delete_data", p>>) = 1 /\ pstate[p] = "freed"
           \/ halted = "double_free"
  /\ \A p \in Payloads :
       /\ PayloadFreedByLast(p) /\ ~Aliased(Pre, p) =>
            Holders(Mem, p) = {} /\ pfrees[p] = 1
       /\ PayloadFreedByLast(p) /\ Aliased(Pre, p) =>
            Holders(Mem, p) # {} /\ pfrees[p] = 1
       /\ Times(<<"delete_data", p>>) = 1 /\ Pre.pstate[p] = "freed" =>
            pfrees[p] = 2 /\ Times(<<"double_free">>) = 1

\* C19 witness: two handles were made from the same raw payload, each with a
\* counter at 1; both have released, and the payload has been deleted twice.
C19_Witness ==
  \E p \in Payloads :
    /\ pfrees[p] = 2 /\ halted = "no"
    /\ last.op = "destroy" /\ Pre.data[last.self] = p
    /\ Pre.count[Pre.shared_references[last.self]] = 1
    /\ Pre.pstate[p] = "freed"
    /\ Times(<<"delete_data", p>>) = 1

\* C11 (as claimed): a construction that fails because an allocation fails
\* leaks nothing: no handle comes to exist, and no payload (the one allocated
\* by the in-place constructor before the counter's allocation failed, or the
\* one handed to the constructor from raw) is left allocated with no handle
\* that owns it.
C11_NoLeakOnAllocationFailure ==
  last.op \in {"raw_throws", "inplace_throws"} =>
    /\ ~live[last.self]
    /\ \A p \in Payloads : pstate[p] = "alloc" => Holders(Mem, p) # {}

\* C16 (as claimed): operator= releases the target's pair and then adopts the
\* source's without ever reading or writing a freed object or counter,
\* wherever the source handle is placed, the handle inside the payload the
\* target is the last owner of included (node = node.get_data()->next).
C16_AssignNeverTouchesFreedState ==
  last.op = "assign" =>
    /\ Times(<<"use_after_free">>) = 0
    /\ Times(<<"double_free">>) = 0
    /\ live[last.other]
    /\ shared_references[last.self] # Null => cstate[shared_references[last.self]] = "alloc"

\* The handle inside payload p owns payload q and the handle inside q owns p.
Cycle(m, p, q) ==
  /\ m.pstate[p] = "alloc" /\ m.pstate[q] = "alloc"
  /\ m.live[MemberOf(p)] /\ m.data[MemberOf(p)] = q /\ Owning(m, MemberOf(p))
  /\ m.live[MemberOf(q)] /\ m.data[MemberOf(q)] = p /\ Owning(m, MemberOf(q))
\* The handles other than those two that hold p or q.
Outside(m, p, q) ==
  {h \in AllHandles \ {MemberOf(p), MemberOf(q)} : m.live[h] /\ m.data[h] \in {p, q}}
\* p lies on a cycle of handles inside payloads, or is owned from one.
KeptByCycle(m, p) ==
  \E q \in Payloads :
    /\ q \in Chain(m, Succ(m, q), MaxPayloads)
    /\ p \in Chain(m, q, MaxPayloads)
\* p and q own each other and no other handle holds either.
Leaked(m, p, q) ==
  /\ Cycle(m, p, q) /\ Outside(m, p, q) = {}
  /\ m.count[m.shared_references[MemberOf(p)]] >= 1
  /\ m.count[m.shared_references[MemberOf(q)]] >= 1
  /\ m.cstate[m.shared_references[MemberOf(p)]] = "alloc"
  /\ m.cstate[m.shared_references[MemberOf(q)]] = "alloc"

\* C20: when the handles inside the payloads of two pairs own each other's
\* pair, destroying the program's handles deletes neither payload; once no
\* handle outside the cycle holds either, both payloads stay allocated and both
\* counters stay where they are, at least 1, whatever the program does next.
\* Every other payload is freed as soon as the program can no longer get at
\* it: deleting a payload destroys the handle inside it, which releases the
\* pair that handle owned, so that only payloads the program can get at, and
\* payloads on or owned from a cycle, are ever allocated.  (All of it as long
\* as no operation has used a freed block.)
C20_CyclesLeakChainsAreFreed ==
  corrupt = {} =>
    /\ \A p \in Payloads :
         pstate[p] = "alloc" => p \in Reachable(Mem) \/ KeptByCycle(Mem, p)
    /\ \A c \in Counters : cstate[c] = "alloc" => Sharers(Mem, c) # {}
    /\ \A p, q \in Payloads :
         /\ Cycle(Mem, p, q) /\ Outside(Mem, p, q) = {} => Leaked(Mem, p, q)
         /\ last.op = "destroy" /\ Cycle(Pre, p, q) =>
              /\ Cycle(Mem, p, q)
              /\ \A r \in {p, q} : Times(<<"delete_data", r>>) = 0
         /\ Leaked(Pre, p, q) =>
              /\ Leaked(Mem, p, q)
              /\ \A r \in {p, q} :
                   /\ shared_references[MemberOf(r)] = Pre.shared_references[MemberOf(r)]
                   /\ count[shared_references[MemberOf(r)]] =
                        Pre.count[shared_references[MemberOf(r)]]

\* C20 witness: two payloads own each other through the handles inside them;
\* the last of the program's handles on them has just been destroyed; both
\* counters are 1 and both payloads are still allocated.
C20_Witness ==
  \E p, q \in Payloads :
    /\ p # q /\ Leaked(Mem, p, q) /\ corrupt = {}
    /\ last.op = "destroy" /\ Pre.data[last.self] \in {p, q}
    /\ count[shared_references[MemberOf(p)]] = 1
    /\ count[shared_references[MemberOf(q)]] = 1
    /\ pfrees[p] = 0 /\ pfrees[q] = 0

\* C17 (as claimed): in the RxPointer of src/src/RxPointer/ every
\* construction and copy-construction adds 1 to the value of the int the
\* handles share, leaving the handle pointing at that int, and the payload is
\* deleted when the last RxPointer holding it is destroyed.
C17_RxCountsAndDeletes ==
  /\ last.op \in {"raw", "inplace", "copy"} =>
       /\ past[last.self] = 0
       /\ count[shared_references[last.self]] =
            Pre.count[shared_references[last.self]] + 1
  /\ last.op = "destroy" /\ Pre.data[last.self] # Null
       /\ Holders(Mem, Pre.data[last.self]) = {} =>
         pstate[Pre.data[last.self]] = "freed"

\* The accesses to the payload of counter c made by threads that hold no
\* handle of c any more.
Departed(c) ==
  {e \in hb.touched :
     /\ \E h \in Sharers(Mem, c) : data[h] = e[2]
     /\ ~\E h \in Sharers(Mem, c) : hb.owner[h] = e[1]}

\* C21: with fetch_sub(acq_rel) as the decrement and fetch_add(relaxed) as the
\* increment, every `delete data` happens-after every access to that payload
\* made by another thread through a handle of its own before it gave that
\* handle up: no such access is unordered with the deletion.  Before the
\* deletion, the accesses of every thread that has given up its handles of a
\* pair have been released on the pair's counter, where the acquire half of
\* the last decrement will find them.
C21_DeleteHappensAfterAccesses ==
  /\ FetchAddOrder = "relaxed"
  /\ hb.unordered = {}
  /\ \A c \in Counters : cstate[c] = "alloc" => Departed(c) \subseteq hb.pub[c]
  /\ hb.deleted # NoDelete => \E p \in Payloads : pstate[p] = "freed"

\* C21 witness: a payload that another thread had accessed has just been
\* deleted by the thread that made the last decrement, after those accesses,
\* while a second payload is in use.
C21_Witness ==
  \E p, q \in Payloads, t \in Threads :
    /\ pstate[p] = "freed" /\ hb.deleted = "after_others"
    /\ pstate[q] = "alloc" /\ <<t, q>> \in hb.touched
    /\ hb.unordered = {}

====
